---------------------------- MODULE Spec2Model ----------------------------
(***************************************************************************)
(* State-machine model of esp-hal-smartled: the RMT smart LED driver       *)
(* (src/src/lib.rs) and its embedded-graphics panel (src/src/graphics.rs). *)
(*                                                                         *)
(* Three specifications share the variables:                               *)
(*   Spec       the RmtSmartLeds driver, blocking and async write          *)
(*   SpecSizing calls of the pure sizing functions buffer_size(_2d)        *)
(*   SpecPanel  the RmtSmartLedsGraphics panel (draw_iter)                 *)
(***************************************************************************)
EXTENDS Integers, Sequences, FiniteSets, TLC

(***************************************************************************)
(* Bounds of the model.                                                    *)
(***************************************************************************)
\* LED counts a driver's BUFFER_SIZE is configured for: 0..MaxLeds.
MaxLeds == 2
\* buffer_size is called with LED counts 0..MaxCount.
MaxCount == 4
\* Panels have 1..MaxW columns and 1..MaxH rows.
MaxW == 4
MaxH == 2

Min(a, b) == IF a < b THEN a ELSE b

\* 1 << n, for the bit positions of a u8 or u16.
Pow2Table == << 1, 2, 4, 8, 16, 32, 64, 128, 256, 512, 1024, 2048, 4096, 8192,
                16384, 32768 >>

Pow2(n) == Pow2Table[n + 1]

\* value & (1 << index) # 0
BitSet(value, index) == (value \div Pow2(index)) % 2 = 1

(***************************************************************************)
(* Color model: impl Color for White, CctWhite, RGB, RGBW, RGBCCT.         *)
(***************************************************************************)
ColorTypes == {"White", "CctWhite", "RGB", "RGBW", "RGBCCT"}

\* ChannelType: u8 or u16 (Unsigned + Into<usize>).
ChannelTypes == {"u8", "u16"}

\* <Color>::CHANNELS
CHANNELS(c) ==
    CASE c = "RGB" -> 3
      [] c = "RGBW" -> 4
      [] c = "RGBCCT" -> 5
      [] c = "White" -> 1
      [] c = "CctWhite" -> 2

\* size_of::<ChannelType>()
size_of(ty) == IF ty = "u8" THEN 1 ELSE 2

\* A color format is [color |-> a color type, ty |-> its channel type].
Formats == [color : ColorTypes, ty : ChannelTypes]

\* Bit-flipped variant of buffer_size: one pulse per byte instead of per bit.
buffer_size_bytes(C, led_count) ==
    led_count * size_of(C.ty) * CHANNELS(C.color) + 1

\* buffer_size::<C>(led_count)
buffer_size(C, led_count) ==
    led_count * (size_of(C.ty) * 8) * CHANNELS(C.color) + 1

\* buffer_size_2d::<C>(width, height)
buffer_size_2d(C, width, height) == buffer_size(C, width * height)

(***************************************************************************)
(* Channel order: color_order_rgb! and Rgbw.                               *)
(***************************************************************************)
Unreachable == "unreachable"

\* The body color_order_rgb! expands to.
color_order_rgb(first, second, third, color, channel) ==
    CASE channel = 0 -> color[first]
      [] channel = 1 -> color[second]
      [] channel = 2 -> color[third]
      [] OTHER -> Unreachable

RgbOrders == {"Rgb", "Rbg", "Grb", "Gbr", "Brg", "Bgr"}

\* Variant of get_channel_data in which Grb and Gbr are swapped.
get_channel_data_swapped(order, color, channel) ==
    CASE order = "Rgb" -> color_order_rgb("r", "g", "b", color, channel)
      [] order = "Rbg" -> color_order_rgb("r", "b", "g", color, channel)
      [] order = "Grb" -> color_order_rgb("g", "b", "r", color, channel)
      [] order = "Gbr" -> color_order_rgb("g", "r", "b", color, channel)
      [] order = "Brg" -> color_order_rgb("b", "r", "g", color, channel)
      [] order = "Bgr" -> color_order_rgb("b", "g", "r", color, channel)
      [] order = "Rgbw" ->
           CASE channel = 0 -> color.r
             [] channel = 1 -> color.g
             [] channel = 2 -> color.b
             [] channel = 3 -> color.a
             [] OTHER -> Unreachable

\* <Order as ColorOrder<C>>::get_channel_data(color, channel)
get_channel_data(order, color, channel) ==
    CASE order = "Rgb" -> color_order_rgb("r", "g", "b", color, channel)
      [] order = "Rbg" -> color_order_rgb("r", "b", "g", color, channel)
      [] order = "Grb" -> color_order_rgb("g", "r", "b", color, channel)
      [] order = "Gbr" -> color_order_rgb("g", "b", "r", color, channel)
      [] order = "Brg" -> color_order_rgb("b", "r", "g", color, channel)
      [] order = "Bgr" -> color_order_rgb("b", "g", "r", color, channel)
      [] order = "Rgbw" ->
           CASE channel = 0 -> color.r
             [] channel = 1 -> color.g
             [] channel = 2 -> color.b
             [] channel = 3 -> color.a
             [] OTHER -> Unreachable

\* The orders implemented for a color type.
OrdersOf(c) ==
    CASE c = "RGB" -> RgbOrders
      [] c = "RGBW" -> {"Rgbw"}
      [] OTHER -> {}

(***************************************************************************)
(* Timing model: impl Timing for the provided LED families.                *)
(***************************************************************************)
SK68XX_CODE_PERIOD == 1200

Timings == {"Sk68xxTiming", "Ws2812bTiming", "Ws2812Timing",
            "Ws2811LowSpeedTiming", "Ws2811Timing"}

\* The four associated constants of a Timing, in nanoseconds (u16).
TimingOf(t) ==
    CASE t = "Sk68xxTiming" ->
           [TIME_0_HIGH |-> 320, TIME_0_LOW |-> SK68XX_CODE_PERIOD - 320,
            TIME_1_HIGH |-> 640, TIME_1_LOW |-> SK68XX_CODE_PERIOD - 640]
      [] t = "Ws2812bTiming" ->
           [TIME_0_HIGH |-> 400, TIME_0_LOW |-> 800,
            TIME_1_HIGH |-> 850, TIME_1_LOW |-> 450]
      [] t = "Ws2812Timing" ->
           [TIME_0_HIGH |-> 350, TIME_0_LOW |-> 700,
            TIME_1_HIGH |-> 800, TIME_1_LOW |-> 600]
      [] t = "Ws2811LowSpeedTiming" ->
           [TIME_0_HIGH |-> 500, TIME_0_LOW |-> 2000,
            TIME_1_HIGH |-> 1200, TIME_1_LOW |-> 1300]
      [] t = "Ws2811Timing" ->
           [TIME_0_HIGH |-> 500 \div 2, TIME_0_LOW |-> 2000 \div 2,
            TIME_1_HIGH |-> 1200 \div 2, TIME_1_LOW |-> 1300 \div 2]

\* PulseCode::new(level1, length1, level2, length2)
PulseCode(level1, length1, level2, length2) ==
    [level1 |-> level1, length1 |-> length1,
     level2 |-> level2, length2 |-> length2]

\* PulseCode::end_marker()
end_marker == PulseCode("Low", 0, "Low", 0)

\* Variant of Ticks that rounds to the nearest tick.
Ticks_rounded(ns, src_clock) == ((ns * src_clock + 500) \div 1000) % 65536

\* ((ns as u32 * src_clock) / 1000) as u16.  The u32 product cannot wrap:
\* ns is a u16 and src_clock, a count of MHz, is below 65537.
Ticks(ns, src_clock) == ((ns * src_clock) \div 1000) % 65536

\* The `pulses` field new_with_memsize computes: <<zero pulse, one pulse>>.
MakePulses(timing, apb_clock_hz) ==
    LET src_clock == apb_clock_hz \div 1000000
        T == TimingOf(timing)
    IN  << PulseCode("High", Ticks(T.TIME_0_HIGH, src_clock),
                     "Low", Ticks(T.TIME_0_LOW, src_clock)),
           PulseCode("High", Ticks(T.TIME_1_HIGH, src_clock),
                     "Low", Ticks(T.TIME_1_LOW, src_clock)) >>

(***************************************************************************)
(* Pulse encoder.  The IterMut over rmt_buffer is the record               *)
(* [buf, pos, err]: the buffer, the number of slots consumed, and whether  *)
(* next() returned None (BufferSizeExceeded).                              *)
(***************************************************************************)
Bits(ty) == size_of(ty) * 8

\* The slots one channel value takes in a buffer with `room` free slots,
\* least-significant bit first.
channel_pulses_lsb(channel_value, ty, room, p) ==
    [k \in 1..Min(Bits(ty), room) |->
        IF BitSet(channel_value, k - 1) THEN p[2] ELSE p[1]]

\* The slots one channel value takes in a buffer with `room` free slots:
\* for index in (0..bits).rev(), pulses.1 when channel_value & (1 << index)
\* is set, else pulses.0; it stops at the first next() that returns None.
channel_pulses(channel_value, ty, room, p) ==
    [k \in 1..Min(Bits(ty), room) |->
        IF BitSet(channel_value, Bits(ty) - k) THEN p[2] ELSE p[1]]

\* Variant of put_pulses that writes the pulses of a channel only when all
\* of them fit.
put_pulses_whole_channel(it, new, want) ==
    IF Len(new) < want
    THEN [buf |-> it.buf, pos |-> it.pos, err |-> TRUE]
    ELSE [buf |-> SubSeq(it.buf, 1, it.pos) \o new
                    \o SubSeq(it.buf, it.pos + Len(new) + 1, Len(it.buf)),
          pos |-> it.pos + Len(new),
          err |-> FALSE]

\* *mut_iter.next().ok_or(BufferSizeExceeded)? = pulse, for each pulse of
\* `new`, which holds the `want` pulses of a channel or as many as fit.
put_pulses(it, new, want) ==
    [buf |-> SubSeq(it.buf, 1, it.pos) \o new
               \o SubSeq(it.buf, it.pos + Len(new) + 1, Len(it.buf)),
     pos |-> it.pos + Len(new),
     err |-> Len(new) < want]

\* convert_channel_to_pulses(channel_value, mut_iter, pulses)
convert_channel_to_pulses(channel_value, ty, it, p) ==
    put_pulses(it, channel_pulses(channel_value, ty, Len(it.buf) - it.pos, p),
               Bits(ty))

\* The `for channel in 0..C::CHANNELS` loop of convert_colors_to_pulse, from
\* `channel` on; an error of a channel (`?`) ends it.
RECURSIVE convert_channels_from(_, _, _, _, _, _)
convert_channels_from(channel, value, C, order, it, p) ==
    IF it.err \/ channel >= CHANNELS(C.color) THEN it
    ELSE convert_channels_from(
             channel + 1, value, C, order,
             convert_channel_to_pulses(get_channel_data(order, value, channel),
                                       C.ty, it, p),
             p)

\* convert_colors_to_pulse::<C, Order>(value, mut_iter, pulses)
convert_colors_to_pulse(value, C, order, it, p) ==
    convert_channels_from(0, value, C, order, it, p)

\* Variant of convert_items_from that takes the items last to first.
RECURSIVE convert_items_from_rev(_, _, _, _, _, _)
convert_items_from_rev(k, items, C, order, it, p) ==
    IF it.err \/ k > Len(items) THEN it
    ELSE convert_items_from_rev(
             k + 1, items, C, order,
             convert_colors_to_pulse(items[Len(items) - k + 1], C, order, it, p),
             p)

\* The `for item in iterator` loop of create_rmt_data, from item k on; an
\* error of an item (`?`) ends it.
RECURSIVE convert_items_from(_, _, _, _, _, _)
convert_items_from(k, items, C, order, it, p) ==
    IF it.err \/ k > Len(items) THEN it
    ELSE convert_items_from(
             k + 1, items, C, order,
             convert_colors_to_pulse(items[k], C, order, it, p), p)

\* Variant of add_end_element that does not write the end marker.
add_end_element_no_write(it) ==
    IF it.err \/ it.pos >= Len(it.buf)
    THEN [buf |-> it.buf, res |-> "BufferSizeExceeded"]
    ELSE [buf |-> it.buf, res |-> "Ok"]

\* Variant of add_end_element that lets the end marker fall off the buffer.
add_end_element_no_check(it) ==
    IF it.err
    THEN [buf |-> it.buf, res |-> "BufferSizeExceeded"]
    ELSE IF it.pos >= Len(it.buf)
    THEN [buf |-> it.buf, res |-> "Ok"]
    ELSE [buf |-> [it.buf EXCEPT ![it.pos + 1] = end_marker], res |-> "Ok"]

\* The end of create_rmt_data, after the loop left the iterator at `it`:
\*   *seq_iter.next().ok_or(BufferSizeExceeded)? = PulseCode::end_marker()
add_end_element(it) ==
    IF it.err \/ it.pos >= Len(it.buf)
    THEN [buf |-> it.buf, res |-> "BufferSizeExceeded"]
    ELSE [buf |-> [it.buf EXCEPT ![it.pos + 1] = end_marker], res |-> "Ok"]

\* The first slot of buf that holds an end marker (Len(buf) + 1: none does).
FirstEnd(buf) ==
    IF \E i \in 1..Len(buf) : buf[i] = end_marker
    THEN CHOOSE i \in 1..Len(buf) :
             /\ buf[i] = end_marker
             /\ \A j \in 1..(i - 1) : buf[j] # end_marker
    ELSE Len(buf) + 1

\* Variant of create_rmt_data that goes on where the last write ended.
create_rmt_data_append(buf, items, C, order, p) ==
    add_end_element(
        convert_items_from(1, items, C, order,
                           [buf |-> buf,
                            pos |-> FirstEnd(buf) - 1,
                            err |-> FALSE], p))

\* create_rmt_data(&mut self, iterator): the new rmt_buffer and the result.
\* The iterator starts at the beginning of the buffer.
create_rmt_data(buf, items, C, order, p) ==
    add_end_element(
        convert_items_from(1, items, C, order,
                           [buf |-> buf, pos |-> 0, err |-> FALSE], p))

(***************************************************************************)
(* State.                                                                  *)
(*   cfg        the generic parameters of the driver type:                 *)
(*              [mode, C, order, BUFFER_SIZE, timing], and the APB clock   *)
(*              Clocks::get() reports to it, apb_clock_hz                  *)
(*   panel      the generic parameters [W, H, SNAKING] of the panel that   *)
(*              owns the driver (W = 0: no panel)                          *)
(*   channel    RmtSmartLeds::channel, "Some" or "None"                    *)
(*   rmt_buffer RmtSmartLeds::rmt_buffer                                   *)
(*   pulses     RmtSmartLeds::pulses                                       *)
(*   fut        the future an async write returned and that is still       *)
(*              alive: [state, res]                                        *)
(*   pc         "idle", or "drawing" inside the loop of draw_iter          *)
(*   npix       pixels the draw_iter calls have taken so far               *)
(*   ret        what the last call did and returned                        *)
(***************************************************************************)
VARIABLES cfg, panel, channel, rmt_buffer, pulses, fut, pc, npix, ret

vars == <<cfg, panel, channel, rmt_buffer, pulses, fut, pc, npix, ret>>

NoPanel == [W |-> 0, H |-> 0, SNAKING |-> FALSE]

NoFuture == [state |-> "none", res |-> "Ok"]

\* The APB clock Clocks::get() reports, in Hz.
ApbClockHz == 80000000

\* The two colors of format C the model writes; their channels differ from
\* each other and are not symmetric under a reversal of the bits.
Palette(C) ==
    CASE C.color = "RGB" /\ C.ty = "u8" ->
           << [r |-> 1, g |-> 2, b |-> 128], [r |-> 255, g |-> 0, b |-> 170] >>
      [] C.color = "RGB" /\ C.ty = "u16" ->
           << [r |-> 1, g |-> 512, b |-> 32768],
              [r |-> 65535, g |-> 0, b |-> 43690] >>
      [] C.color = "RGBW" /\ C.ty = "u8" ->
           << [r |-> 1, g |-> 2, b |-> 128, a |-> 64],
              [r |-> 255, g |-> 0, b |-> 170, a |-> 85] >>
      [] C.color = "RGBW" /\ C.ty = "u16" ->
           << [r |-> 1, g |-> 512, b |-> 32768, a |-> 16384],
              [r |-> 65535, g |-> 0, b |-> 43690, a |-> 21845] >>

\* The k colors that alternate between the two of the palette, starting
\* with the first (first = 1) or the second (first = 2).
Alternating(C, first, k) ==
    [i \in 1..k |-> Palette(C)[((i + first) % 2) + 1]]

\* The color formats a driver can be built for: those with a ColorOrder.
DriverFormats == { C \in Formats : OrdersOf(C.color) # {} }

\* BUFFER_SIZE values: buffer_size(n) for n in 0..MaxLeds, and one below each.
Capacities(C) ==
    { buffer_size(C, n) + d : n \in 0..MaxLeds, d \in {-1, 0} }

StripConfigs ==
    { c \in [mode : {"Blocking", "Async"}, C : DriverFormats,
             order : RgbOrders \cup {"Rgbw"},
             BUFFER_SIZE : UNION { Capacities(C) : C \in DriverFormats },
             timing : {"Ws2812Timing"},
             apb_clock_hz : {ApbClockHz}] :
        /\ c.order \in OrdersOf(c.C.color)
        /\ c.BUFFER_SIZE \in Capacities(c.C) }

\* RmtSmartLeds::new_with_memsize, after configure_tx succeeded.
new_with_memsize(c) ==
    /\ cfg = c
    /\ channel = "Some"
    /\ rmt_buffer = [i \in 1..c.BUFFER_SIZE |-> end_marker]
    /\ pulses = MakePulses(c.timing, c.apb_clock_hz)
    /\ fut = NoFuture
    /\ pc = "idle"
    /\ npix = 0
    /\ ret = [op |-> "new", res |-> "Ok", submitted |-> FALSE, colors |-> <<>>]

Init ==
    /\ panel = NoPanel
    /\ \E c \in StripConfigs : new_with_memsize(c)

\* What the peripheral does with a submission: it completes it, rejects the
\* submission itself, or reports a fault while the driver waits.
HwOutcomes == {"ok", "reject", "fault"}

\* Variant of transmit_and_wait whose Ok arm does not put the channel back.
transmit_and_wait_no_restore(ch, e, hw) ==
    IF e.res # "Ok"
    THEN [channel |-> ch, buf |-> e.buf, res |-> e.res, submitted |-> FALSE]
    ELSE IF ch = "None"
    THEN [channel |-> ch, buf |-> e.buf, res |-> "Panic", submitted |-> FALSE]
    ELSE IF hw = "reject"
    THEN [channel |-> "None", buf |-> e.buf, res |-> "TransmissionError",
          submitted |-> TRUE]
    ELSE IF hw = "fault"
    THEN [channel |-> "Some", buf |-> e.buf, res |-> "TransmissionError",
          submitted |-> TRUE]
    ELSE [channel |-> "None", buf |-> e.buf, res |-> "Ok", submitted |-> TRUE]

\* Variant of transmit_and_wait that takes the channel and submits before it
\* looks at the result of the encoding.
transmit_and_wait_submit_first(ch, e, hw) ==
    IF ch = "None"
    THEN [channel |-> ch, buf |-> e.buf, res |-> "Panic", submitted |-> FALSE]
    ELSE IF hw = "reject"
    THEN [channel |-> "None", buf |-> e.buf, res |-> "TransmissionError",
          submitted |-> TRUE]
    ELSE IF e.res # "Ok"
    THEN [channel |-> "None", buf |-> e.buf, res |-> e.res, submitted |-> TRUE]
    ELSE IF hw = "fault"
    THEN [channel |-> "Some", buf |-> e.buf, res |-> "TransmissionError",
          submitted |-> TRUE]
    ELSE [channel |-> "Some", buf |-> e.buf, res |-> "Ok", submitted |-> TRUE]

\* The body of the blocking write after create_rmt_data returned e, on a
\* driver whose slot is ch: the slot, the buffer and the result at return.
\*   create_rmt_data(iterator)?          an Err returns before the take
\*   self.channel.take().unwrap()        panics on an empty slot
\*   channel.transmit(&self.rmt_buffer)? an Err returns; transmit consumed
\*                                       the channel
\*   .wait()                             both arms put the channel back
transmit_and_wait(ch, e, hw) ==
    IF e.res # "Ok"
    THEN [channel |-> ch, buf |-> e.buf, res |-> e.res, submitted |-> FALSE]
    ELSE IF ch = "None"
    THEN [channel |-> ch, buf |-> e.buf, res |-> "Panic", submitted |-> FALSE]
    ELSE IF hw = "reject"
    THEN [channel |-> "None", buf |-> e.buf, res |-> "TransmissionError",
          submitted |-> TRUE]
    ELSE IF hw = "fault"
    THEN [channel |-> "Some", buf |-> e.buf, res |-> "TransmissionError",
          submitted |-> TRUE]
    ELSE [channel |-> "Some", buf |-> e.buf, res |-> "Ok", submitted |-> TRUE]

\* <RmtSmartLeds<Blocking> as SmartLedsWrite>::write(iterator) on a driver of
\* type parameters c whose slot is ch and whose buffer is buf.
write_blocking(ch, buf, colors, hw, c, p) ==
    transmit_and_wait(ch, create_rmt_data(buf, colors, c.C, c.order, p), hw)

\* The colors a caller hands to write: up to one more than the largest
\* configured LED count.
WriteInputs ==
    { Alternating(cfg.C, first, k) : first \in {1, 2}, k \in 0..(MaxLeds + 1) }

\* A panic ends the program.
Running == ret.res # "Panic"

\* The driver and the caller after a blocking write that ended as w.
WriteReturns(w, colors) ==
    /\ channel' = w.channel
    /\ rmt_buffer' = w.buf
    /\ ret' = [op |-> "write", res |-> w.res, submitted |-> w.submitted,
               colors |-> colors]

\* SmartLedsWrite::write(iterator), blocking.
Write(colors, hw) ==
    /\ Running
    /\ panel = NoPanel
    /\ cfg.mode = "Blocking"
    /\ WriteReturns(write_blocking(channel, rmt_buffer, colors, hw, cfg, pulses),
                    colors)
    /\ UNCHANGED <<cfg, panel, pulses, fut, pc, npix>>

\* Variant of async_write_poll that submits before it looks at `res`.
async_write_poll_submit_first(ch, res, accepted) ==
    IF ch = "None"
    THEN [state |-> "none", res |-> "Panic", submitted |-> FALSE]
    ELSE IF ~accepted
    THEN [state |-> "none", res |-> "TransmissionError", submitted |-> TRUE]
    ELSE IF res # "Ok"
    THEN [state |-> "none", res |-> res, submitted |-> TRUE]
    ELSE [state |-> "pending", res |-> "Pending", submitted |-> TRUE]

\* The first poll of the future of the async write, `async move { .. }`:
\*   res?;                               the error create_rmt_data recorded
\*   self.channel.as_mut().unwrap()      borrows the channel, never takes it
\*   .transmit(&self.rmt_buffer).await?  rejected at once, or pending
async_write_poll(ch, res, accepted) ==
    IF res # "Ok"
    THEN [state |-> "none", res |-> res, submitted |-> FALSE]
    ELSE IF ch = "None"
    THEN [state |-> "none", res |-> "Panic", submitted |-> FALSE]
    ELSE IF ~accepted
    THEN [state |-> "none", res |-> "TransmissionError", submitted |-> TRUE]
    ELSE [state |-> "pending", res |-> "Pending", submitted |-> TRUE]

\* The driver and the future after the call of the async write encoded e.
AsyncWriteReturns(e) ==
    /\ rmt_buffer' = e.buf
    /\ fut' = [state |-> "created", res |-> e.res]

\* Variant of AsyncWrite that does not need the &mut borrow of the driver:
\* it can be called while an earlier future is alive.
AsyncWrite_no_borrow(colors) ==
    /\ Running
    /\ panel = NoPanel
    /\ cfg.mode = "Async"
    /\ AsyncWriteReturns(
           create_rmt_data(rmt_buffer, colors, cfg.C, cfg.order, pulses))
    /\ ret' = [op |-> "write_call", res |-> "Future", submitted |-> FALSE,
               colors |-> colors]
    /\ UNCHANGED <<cfg, panel, channel, pulses, pc, npix>>

\* SmartLedsWriteAsync::write(iterator): the call encodes and returns the
\* future, which holds the &mut borrow of the driver until it is dropped.
AsyncWrite(colors) ==
    /\ Running
    /\ panel = NoPanel
    /\ cfg.mode = "Async"
    /\ fut.state = "none"
    /\ AsyncWriteReturns(
           create_rmt_data(rmt_buffer, colors, cfg.C, cfg.order, pulses))
    /\ ret' = [op |-> "write_call", res |-> "Future", submitted |-> FALSE,
               colors |-> colors]
    /\ UNCHANGED <<cfg, panel, channel, pulses, pc, npix>>

\* The executor polls the future for the first time.
AsyncPoll(accepted) ==
    /\ Running
    /\ fut.state = "created"
    /\ LET r == async_write_poll(channel, fut.res, accepted)
       IN  /\ fut' = IF r.state = "pending"
                     THEN [state |-> "pending", res |-> fut.res]
                     ELSE NoFuture
           /\ ret' = [op |-> "write_poll", res |-> r.res,
                      submitted |-> r.submitted, colors |-> ret.colors]
    /\ UNCHANGED <<cfg, panel, channel, rmt_buffer, pulses, pc, npix>>

\* The peripheral signals the end of the transmission; the future resolves.
AsyncComplete(ok) ==
    /\ Running
    /\ fut.state = "pending"
    /\ fut' = NoFuture
    /\ ret' = [op |-> "write_done",
               res |-> IF ok THEN "Ok" ELSE "TransmissionError",
               submitted |-> TRUE, colors |-> ret.colors]
    /\ UNCHANGED <<cfg, panel, channel, rmt_buffer, pulses, pc, npix>>

\* Variant of AsyncCancel in which a future dropped mid-transmission takes
\* the channel with it.
AsyncCancel_drops_channel ==
    /\ Running
    /\ fut.state \in {"created", "pending"}
    /\ fut' = NoFuture
    /\ channel' = IF fut.state = "pending" THEN "None" ELSE channel
    /\ ret' = [op |-> "write_cancel", res |-> "Cancelled",
               submitted |-> (fut.state = "pending"), colors |-> ret.colors]
    /\ UNCHANGED <<cfg, panel, rmt_buffer, pulses, pc, npix>>

\* The caller drops the future before it resolved (cancellation).
AsyncCancel ==
    /\ Running
    /\ fut.state \in {"created", "pending"}
    /\ fut' = NoFuture
    /\ ret' = [op |-> "write_cancel", res |-> "Cancelled",
               submitted |-> (fut.state = "pending"), colors |-> ret.colors]
    /\ UNCHANGED <<cfg, panel, channel, rmt_buffer, pulses, pc, npix>>

Next ==
    \/ \E colors \in WriteInputs, hw \in HwOutcomes : Write(colors, hw)
    \/ \E colors \in WriteInputs : AsyncWrite(colors)
    \/ \E accepted \in BOOLEAN : AsyncPoll(accepted)
    \/ \E ok \in BOOLEAN : AsyncComplete(ok)
    \/ AsyncCancel

Spec == Init /\ [][Next]_vars

(***************************************************************************)
(* SpecSizing: the sizing functions, called at configuration time, before  *)
(* any driver exists.                                                      *)
(***************************************************************************)
NoDriver ==
    [mode |-> "None", C |-> [color |-> "RGB", ty |-> "u8"], order |-> "Rgb",
     BUFFER_SIZE |-> 0, timing |-> "Ws2812Timing",
     apb_clock_hz |-> ApbClockHz]

InitSizing ==
    /\ cfg = NoDriver
    /\ panel = NoPanel
    /\ channel = "None"
    /\ rmt_buffer = << >>
    /\ pulses = MakePulses(NoDriver.timing, NoDriver.apb_clock_hz)
    /\ fut = NoFuture
    /\ pc = "idle"
    /\ npix = 0
    /\ ret = [op |-> "none", res |-> "Ok"]

\* A call buffer_size::<C>(led_count).
BufferSize(C, led_count) ==
    /\ ret' = [op |-> "buffer_size", res |-> "Ok", C |-> C,
               led_count |-> led_count, value |-> buffer_size(C, led_count)]
    /\ UNCHANGED <<cfg, panel, channel, rmt_buffer, pulses, fut, pc, npix>>

\* A call buffer_size_2d::<C>(width, height).
BufferSize2d(C, width, height) ==
    /\ ret' = [op |-> "buffer_size_2d", res |-> "Ok", C |-> C,
               width |-> width, height |-> height,
               value |-> buffer_size_2d(C, width, height)]
    /\ UNCHANGED <<cfg, panel, channel, rmt_buffer, pulses, fut, pc, npix>>

NextSizing ==
    \/ \E C \in Formats, led_count \in 0..MaxCount : BufferSize(C, led_count)
    \/ \E C \in Formats, width \in 0..MaxW, height \in 0..MaxH :
           BufferSize2d(C, width, height)

SpecSizing == InitSizing /\ [][NextSizing]_vars

(***************************************************************************)
(* SpecPanel: RmtSmartLedsGraphics, which owns a blocking RGB8 driver.     *)
(* draw_iter takes its pixels from a lazy iterator: pc = "drawing" is the  *)
(* loop between two pixels.                                                *)
(***************************************************************************)
\* Pixels the draw_iter calls of one behaviour take.
MaxPixels == 2

RGB8 == [color |-> "RGB", ty |-> "u8"]

PanelConfigs ==
    [W : 1..MaxW, H : 1..MaxH, SNAKING : BOOLEAN]

\* The driver type of a panel: BUFFER_SIZE chosen with buffer_size_2d.
PanelDriver(pn, order) ==
    [mode |-> "Blocking", C |-> RGB8, order |-> order,
     BUFFER_SIZE |-> buffer_size_2d(RGB8, pn.W, pn.H),
     timing |-> "Ws2812bTiming", apb_clock_hz |-> ApbClockHz]

\* The color orders the panels of the model are built with.
PanelOrders == {"Grb"}

\* RmtSmartLedsGraphics::new_with_memsize
InitPanel ==
    \E pn \in PanelConfigs, order \in PanelOrders :
        /\ panel = pn
        /\ new_with_memsize(PanelDriver(pn, order))

\* Variant of coordinate_to_index that mirrors x to W - x.
coordinate_to_index_W_minus_x(x, y, W, SNAKING) ==
    IF SNAKING /\ y % 2 = 0
    THEN (W - x) + y * W
    ELSE x + y * W

\* Variant of coordinate_to_index that mirrors the odd rows.
coordinate_to_index_odd(x, y, W, SNAKING) ==
    IF SNAKING /\ y % 2 = 1
    THEN (W - x - 1) + y * W
    ELSE x + y * W

\* RmtSmartLedsGraphics::coordinate_to_index(x, y).  W - x - 1 is usize
\* arithmetic; draw_iter calls it with x < W only.
coordinate_to_index(x, y, W, SNAKING) ==
    IF SNAKING /\ y % 2 = 0
    THEN (W - x - 1) + y * W
    ELSE x + y * W

\* rgb888_to_rgb8(v)
rgb888_to_rgb8(v) == [r |-> v.r, g |-> v.g, b |-> v.b]

\* RmtSmartLeds::write_pixel_data(index, color): the color's pulses go to
\* the slots of LED `index`; BufferSizeExceeded when they do not fit.
write_pixel_data(buf, index, color, c, p) ==
    LET start == index * CHANNELS(c.C.color) * Bits(c.C.ty)
    IN  IF start > Len(buf)
        THEN [buf |-> buf, err |-> TRUE]
        ELSE convert_colors_to_pulse(color, c.C, c.order,
                                     [buf |-> buf, pos |-> start,
                                      err |-> FALSE], p)

\* RmtSmartLeds::flush(): transmits rmt_buffer as the blocking write does.
flush(ch, buf, hw) ==
    transmit_and_wait(ch, [buf |-> buf, res |-> "Ok"], hw)

\* draw_iter is called.
DrawIterBegin ==
    /\ Running
    /\ panel # NoPanel
    /\ pc = "idle"
    /\ pc' = "drawing"
    /\ ret' = [op |-> "draw_iter", res |-> "Drawing"]
    /\ UNCHANGED <<cfg, panel, channel, rmt_buffer, pulses, fut, npix>>

\* Variant of DrawPixelReturns that does not keep what write_pixel_data wrote.
DrawPixelReturns_no_store(w, x, y, index) ==
    /\ rmt_buffer' = rmt_buffer
    /\ pc' = IF w.err THEN "idle" ELSE "drawing"
    /\ ret' = [op |-> "draw_pixel",
               res |-> IF w.err THEN "BufferSizeExceeded" ELSE "Written",
               x |-> x, y |-> y, index |-> index]

\* The driver and the caller after write_pixel_data returned w for the
\* accepted pixel (x, y).
DrawPixelReturns(w, x, y, index) ==
    /\ rmt_buffer' = w.buf
    /\ pc' = IF w.err THEN "idle" ELSE "drawing"
    /\ ret' = [op |-> "draw_pixel",
               res |-> IF w.err THEN "BufferSizeExceeded" ELSE "Written",
               x |-> x, y |-> y, index |-> index]

\* Variant of DrawPixel whose range test lets x = W through.
DrawPixel_x_up_to_W(x, y, color) ==
    /\ Running
    /\ pc = "drawing"
    /\ npix < MaxPixels
    /\ npix' = npix + 1
    /\ IF x < 0 \/ y < 0 \/ x > panel.W \/ y >= panel.H
       THEN /\ ret' = [op |-> "draw_pixel", res |-> "Skipped",
                       x |-> x, y |-> y, index |-> -1]
            /\ UNCHANGED <<rmt_buffer, pc>>
       ELSE DrawPixelReturns(
                write_pixel_data(
                    rmt_buffer,
                    coordinate_to_index(x, y, panel.W, panel.SNAKING),
                    rgb888_to_rgb8(color), cfg, pulses),
                x, y, coordinate_to_index(x, y, panel.W, panel.SNAKING))
    /\ UNCHANGED <<cfg, panel, channel, pulses, fut>>

\* One turn of the loop of draw_iter, for the pixel Pixel((x, y), color):
\* a coordinate that is negative (try_into fails) or not below W and H is
\* skipped; an error of write_pixel_data (`?`) ends draw_iter.
DrawPixel(x, y, color) ==
    /\ Running
    /\ pc = "drawing"
    /\ npix < MaxPixels
    /\ npix' = npix + 1
    /\ IF x < 0 \/ y < 0 \/ x >= panel.W \/ y >= panel.H
       THEN /\ ret' = [op |-> "draw_pixel", res |-> "Skipped",
                       x |-> x, y |-> y, index |-> -1]
            /\ UNCHANGED <<rmt_buffer, pc>>
       ELSE DrawPixelReturns(
                write_pixel_data(
                    rmt_buffer,
                    coordinate_to_index(x, y, panel.W, panel.SNAKING),
                    rgb888_to_rgb8(color), cfg, pulses),
                x, y, coordinate_to_index(x, y, panel.W, panel.SNAKING))
    /\ UNCHANGED <<cfg, panel, channel, pulses, fut>>

\* The iterator is exhausted: draw_iter returns Ok(()).
DrawIterEnd ==
    /\ Running
    /\ pc = "drawing"
    /\ pc' = "idle"
    /\ ret' = [op |-> "draw_iter", res |-> "Ok"]
    /\ UNCHANGED <<cfg, panel, channel, rmt_buffer, pulses, fut, npix>>

\* The driver and the caller after flush returned w.
FlushReturns(w) ==
    /\ channel' = w.channel
    /\ rmt_buffer' = w.buf
    /\ ret' = [op |-> "flush", res |-> w.res, submitted |-> w.submitted]

\* RmtSmartLedsGraphics::flush()
Flush(hw) ==
    /\ Running
    /\ panel # NoPanel
    /\ pc = "idle"
    /\ FlushReturns(flush(channel, rmt_buffer, hw))
    /\ UNCHANGED <<cfg, panel, pulses, fut, pc, npix>>

\* The colors of the pixels drawn.
PixelColors == { Palette(RGB8)[1], Palette(RGB8)[2] }

\* The coordinates of the pixels drawn: every one of the panel, and one
\* outside it on each of its four sides.
PixelCoords ==
    ((0..(panel.W - 1)) \X (0..(panel.H - 1)))
        \cup { <<-1, 0>>, <<panel.W, 0>>, <<0, -1>>, <<0, panel.H>> }

NextPanel ==
    \/ DrawIterBegin
    \/ \E xy \in PixelCoords, color \in PixelColors :
           DrawPixel(xy[1], xy[2], color)
    \/ DrawIterEnd
    \/ \E hw \in HwOutcomes : Flush(hw)

SpecPanel == InitPanel /\ [][NextPanel]_vars

(***************************************************************************)
(* SpecTiming: drivers of every provided Timing, constructed under the APB *)
(* clocks of the supported chips, and the writes on them.                  *)
(***************************************************************************)
\* APB clocks in Hz: 32 MHz, 40 MHz and 80 MHz.
ApbClocks == {32000000, 40000000, 80000000}

TimingConfigs ==
    [mode : {"Blocking", "Async"}, C : {RGB8}, order : {"Rgb"},
     BUFFER_SIZE : {buffer_size(RGB8, 1)},
     timing : Timings, apb_clock_hz : ApbClocks]

InitTiming ==
    /\ panel = NoPanel
    /\ \E c \in TimingConfigs : new_with_memsize(c)

SpecTiming == InitTiming /\ [][Next]_vars

(***************************************************************************)
(* Properties.                                                             *)
(***************************************************************************)
\* The last call was a blocking write.
BlockingWriteReturned == cfg.mode = "Blocking" /\ ret.op = "write"

\* The last call encoded ret.colors and the encoding succeeded: a blocking
\* write that got past create_rmt_data, or the call of an async write.
EncodedOk ==
    \/ ret.op = "write" /\ ret.res # "BufferSizeExceeded"
    \/ ret.op = "write_call" /\ fut.res = "Ok"

\* The last call encoded ret.colors and the encoding failed.
EncodedErr ==
    \/ ret.op = "write" /\ ret.res = "BufferSizeExceeded"
    \/ ret.op = "write_call" /\ fut.res = "BufferSizeExceeded"

\* The inputs that fit the buffer of the driver.
FittingInputs ==
    { colors \in WriteInputs :
        Len(colors) * CHANNELS(cfg.C.color) * Bits(cfg.C.ty) + 1
            <= cfg.BUFFER_SIZE }

\* C1: a blocking write that fails at the hardware layer, by a rejected
\* submission or by a fault while waiting, returns with the channel back in
\* the slot of the driver, so that no later write panics on a missing channel.
C1_ChannelRestoredAfterHardwareFailure ==
    (BlockingWriteReturned /\ ret.res = "TransmissionError") =>
        /\ channel = "Some"
        /\ \A colors \in WriteInputs, hw \in HwOutcomes :
               write_blocking(channel, rmt_buffer, colors, hw, cfg,
                              pulses).res # "Panic"

\* C2: whenever a blocking write returns Ok the driver owns its channel, and
\* a write that follows at once, with an input that fits the buffer and a
\* peripheral that succeeds, returns Ok as well.
C2_ChannelOwnedAfterSuccessfulWrite ==
    (BlockingWriteReturned /\ ret.res = "Ok") =>
        /\ channel = "Some"
        /\ \A colors \in FittingInputs :
               LET w == write_blocking(channel, rmt_buffer, colors, "ok", cfg,
                                       pulses)
               IN  w.res = "Ok" /\ w.channel = "Some"

\* C2's case: a successful blocking write of two colors has returned, and a
\* one-color write can follow it.
C2_Witness ==
    /\ BlockingWriteReturned
    /\ ret.res = "Ok"
    /\ Len(ret.colors) = 2
    /\ \E colors \in FittingInputs : Len(colors) = 1

\* C3: a write of n+1 colors on a driver whose BUFFER_SIZE is buffer_size(n)
\* ends with BufferSizeExceeded, in the blocking write and in the async write
\* (recorded by the call, returned by the first poll of its future), with no
\* submission attempted and the channel slot as it was before.
C3_OverflowBeforeSubmission ==
    [][ /\ ret'.op \in {"write", "write_call", "write_poll"}
        /\ ret'.colors # << >>
        /\ cfg.BUFFER_SIZE = buffer_size(cfg.C, Len(ret'.colors) - 1)
        => /\ ret'.op = "write_call" => fut'.res = "BufferSizeExceeded"
           /\ ret'.op # "write_call" => ret'.res = "BufferSizeExceeded"
           /\ ~ret'.submitted
           /\ channel' = channel ]_vars

\* C3's case: a blocking write of two colors on a driver sized for one LED
\* has returned BufferSizeExceeded.
C3_Witness ==
    /\ BlockingWriteReturned
    /\ Len(ret.colors) = 2
    /\ cfg.BUFFER_SIZE = buffer_size(cfg.C, 1)
    /\ ret.res = "BufferSizeExceeded"
    /\ channel = "Some"

\* C4: in a buffer of B slots and a format of c channels of b bits, the
\* encoding of k colors succeeds if and only if k*c*b + 1 <= B, and fails
\* with BufferSizeExceeded otherwise; so with B = buffer_size(n) it succeeds
\* exactly for k <= n, and a buffer of exactly k*c*b slots fails.
C4_EncodeSucceedsIffFits ==
    ret.op \in {"write", "write_call"} =>
        LET k == Len(ret.colors)
            c == CHANNELS(cfg.C.color)
            b == Bits(cfg.C.ty)
            B == cfg.BUFFER_SIZE
        IN  /\ EncodedOk \/ EncodedErr
            /\ EncodedOk <=> k * c * b + 1 <= B
            /\ \A n \in 0..MaxLeds :
                   B = buffer_size(cfg.C, n) => (EncodedOk <=> k <= n)

\* C4's case: one color was encoded into a buffer of exactly c*b slots, which
\* has no room for the end marker, and the encoding failed.
C4_Witness ==
    /\ ret.op \in {"write", "write_call"}
    /\ Len(ret.colors) = 1
    /\ cfg.BUFFER_SIZE = CHANNELS(cfg.C.color) * Bits(cfg.C.ty)
    /\ EncodedErr

\* C5: after a successful encoding of n colors the slots 0 .. n*c*b-1 hold
\* bit pulses and slot n*c*b holds the end marker; slot (i*c + j)*b + q holds
\* the one pulse if bit b-1-q of wire channel j of the i-th color is set,
\* and the zero pulse otherwise (slot s is rmt_buffer[s + 1]).
C5_PulseLayout ==
    EncodedOk =>
        LET n == Len(ret.colors)
            c == CHANNELS(cfg.C.color)
            b == Bits(cfg.C.ty)
        IN  /\ pulses[1] # end_marker /\ pulses[2] # end_marker
            /\ pulses[1] # pulses[2]
            /\ \A i \in 0..(n - 1), j \in 0..(c - 1), q \in 0..(b - 1) :
                   rmt_buffer[(i * c + j) * b + q + 1] =
                       IF BitSet(get_channel_data(cfg.order, ret.colors[i + 1],
                                                  j), b - 1 - q)
                       THEN pulses[2] ELSE pulses[1]
            /\ rmt_buffer[n * c * b + 1] = end_marker

\* C5's case: two different 16-bit colors were encoded.
C5_Witness ==
    /\ EncodedOk
    /\ Len(ret.colors) = 2
    /\ ret.colors[1] # ret.colors[2]
    /\ cfg.C.ty = "u16"

\* C6, as stated: after the encoding of an empty input into a buffer of at
\* least one slot, the buffer contains only the end marker, whatever earlier
\* writes put into it.
C6_EmptyInputOnlyEndMarker ==
    (ret.op \in {"write", "write_call"} /\ ret.colors = << >>
       /\ cfg.BUFFER_SIZE >= 1) =>
        /\ EncodedOk
        /\ \A s \in 1..Len(rmt_buffer) : rmt_buffer[s] = end_marker

\* C6, amended: the encoding of an empty input into a buffer of at least one
\* slot succeeds and writes the end marker into slot 0, so that the sequence
\* up to the first end marker is that one descriptor; every other slot keeps
\* what it held before the call.
C6_EmptyInputEndMarkerFirst ==
    [][ (ret'.op \in {"write", "write_call"} /\ ret'.colors = << >>
           /\ cfg.BUFFER_SIZE >= 1) =>
          /\ EncodedOk'
          /\ rmt_buffer' = [rmt_buffer EXCEPT ![1] = end_marker]
          /\ FirstEnd(rmt_buffer') = 1 ]_vars

\* C6's case: an empty input was encoded into a buffer that still holds the
\* pulses of an earlier write behind the end marker.
C6_Witness ==
    /\ ret.op \in {"write", "write_call"}
    /\ ret.colors = << >>
    /\ EncodedOk
    /\ Len(rmt_buffer) >= 2
    /\ rmt_buffer[1] = end_marker
    /\ rmt_buffer[2] # end_marker

\* C7: for every color format (1 to 5 channels of 8 or 16 bits) and every LED
\* count, buffer_size returns led_count * channel count * bit width + 1, and
\* buffer_size_2d(width, height) is buffer_size(width * height).
C7_BufferSizeFormula ==
    /\ ret.op \in {"buffer_size", "buffer_size_2d"} =>
           /\ CHANNELS(ret.C.color) \in 1..5
           /\ Bits(ret.C.ty) \in {8, 16}
    /\ ret.op = "buffer_size" =>
           ret.value
               = ret.led_count * CHANNELS(ret.C.color) * Bits(ret.C.ty) + 1
    /\ ret.op = "buffer_size_2d" =>
           /\ ret.value = buffer_size(ret.C, ret.width * ret.height)
           /\ ret.value = ret.width * ret.height * CHANNELS(ret.C.color)
                              * Bits(ret.C.ty) + 1

\* C7's case: buffer_size_2d was called for a 2 x 2 panel of 16-bit RGBCCT.
C7_Witness ==
    /\ ret.op = "buffer_size_2d"
    /\ ret.C = [color |-> "RGBCCT", ty |-> "u16"]
    /\ ret.width = 2 /\ ret.height = 2
    /\ ret.value = 321

\* The fields the name of a color order documents, in wire order (`a` is the
\* white field of RGBW).
DocumentedOrder(order) ==
    CASE order = "Rgb" -> << "r", "g", "b" >>
      [] order = "Rbg" -> << "r", "b", "g" >>
      [] order = "Grb" -> << "g", "r", "b" >>
      [] order = "Gbr" -> << "g", "b", "r" >>
      [] order = "Brg" -> << "b", "r", "g" >>
      [] order = "Bgr" -> << "b", "g", "r" >>
      [] order = "Rgbw" -> << "r", "g", "b", "a" >>

\* C8: for every color order and every channel index below the channel count
\* get_channel_data returns the field the name of the order documents at
\* that position, each field at exactly one position; so do the pulses of an
\* encoded color, channel by channel.
C8_ChannelOrderAsDocumented ==
    EncodedOk =>
        LET c == CHANNELS(cfg.C.color)
            b == Bits(cfg.C.ty)
            doc == DocumentedOrder(cfg.order)
        IN  /\ Len(doc) = c
            /\ \A i \in 1..Len(ret.colors) :
                   /\ { doc[j] : j \in 1..c } = DOMAIN ret.colors[i]
                   /\ \A j, k \in 1..c : doc[j] = doc[k] => j = k
                   /\ \A j \in 0..(c - 1) :
                          /\ get_channel_data(cfg.order, ret.colors[i], j)
                                 = ret.colors[i][doc[j + 1]]
                          /\ \A q \in 0..(b - 1) :
                                 (rmt_buffer[((i - 1) * c + j) * b + q + 1]
                                      = pulses[2])
                                 <=> BitSet(ret.colors[i][doc[j + 1]],
                                            b - 1 - q)

\* C8's case: a driver of order Grb encoded a color whose three fields
\* differ, and the first eight slots hold its green field.
C8_Witness ==
    /\ EncodedOk
    /\ cfg.order = "Grb"
    /\ cfg.C.ty = "u8"
    /\ Len(ret.colors) >= 1
    /\ ret.colors[1] = [r |-> 1, g |-> 2, b |-> 128]
    /\ \A q \in 0..7 : (rmt_buffer[q + 1] = pulses[2]) <=> (q = 6)

C10_FirstRowNormalOddRowsReversed ==
    (ret.op = "draw_pixel" /\ ret.res # "Skipped" /\ panel.SNAKING) =>
        /\ ret.y = 0 => ret.index = ret.x + ret.y * panel.W
        /\ ret.y % 2 = 1 =>
               ret.index = (panel.W - ret.x - 1) + ret.y * panel.W

\* The pixel the last turn of draw_iter took lies outside the panel.
OutOfRange(r) ==
    r.x < 0 \/ r.y < 0 \/ r.x >= panel.W \/ r.y >= panel.H

\* C11: a pixel of draw_iter whose coordinates are negative or not below W
\* and H is dropped: the turn reports no error, leaves the pulse buffer and
\* the channel slot as they were, and draw_iter stays in its loop to take
\* the pixels that follow.
C11_OutOfRangePixelDropped ==
    [][ (ret'.op = "draw_pixel" /\ OutOfRange(ret')) =>
          /\ ret'.res = "Skipped"
          /\ rmt_buffer' = rmt_buffer
          /\ channel' = channel
          /\ pulses' = pulses
          /\ pc' = "drawing" ]_vars

\* C11's case: after a pixel was written, a pixel at x = W was dropped, and
\* the buffer still holds the pixel written before.
C11_Witness ==
    /\ ret.op = "draw_pixel"
    /\ ret.res = "Skipped"
    /\ ret.x = panel.W /\ ret.y = 0
    /\ npix = 2
    /\ pc = "drawing"
    /\ \E s \in 1..Len(rmt_buffer) : rmt_buffer[s] # end_marker

\* The pulses of one color in the slots of a LED: slot j*b + q of the LED
\* holds the one pulse if bit b-1-q of wire channel j is set, and the zero
\* pulse otherwise.
PixelPulses(color) ==
    LET c == CHANNELS(cfg.C.color)
        b == Bits(cfg.C.ty)
    IN  [k \in 1..(c * b) |->
            IF BitSet(get_channel_data(cfg.order, color, (k - 1) \div b),
                      b - 1 - ((k - 1) % b))
            THEN pulses[2] ELSE pulses[1]]

\* The buffer buf with the slots of LED `index` holding the pulses of color
\* and every other slot as it is.
WithPixel(buf, index, color) ==
    LET cb == CHANNELS(cfg.C.color) * Bits(cfg.C.ty)
    IN  SubSeq(buf, 1, index * cb) \o PixelPulses(color)
            \o SubSeq(buf, (index + 1) * cb + 1, Len(buf))

WriteGoesThrough(e, ch, colors) ==
    /\ e.res = "Ok"
    /\ FirstEnd(e.buf) =
           Len(colors) * CHANNELS(cfg.C.color) * Bits(cfg.C.ty) + 1
    /\ cfg.mode = "Blocking" =>
           transmit_and_wait(ch, e, "ok").res = "Ok"
    /\ cfg.mode = "Async" =>
           async_write_poll(ch, e.res, TRUE).state = "pending"

\* Every fitting input goes through on the driver whose slot is ch and whose
\* buffer is buf.
Recoverable(ch, buf) ==
    \A colors \in FittingInputs :
        WriteGoesThrough(
            create_rmt_data(buf, colors, cfg.C, cfg.order, pulses), ch, colors)

C14_OneTransmissionInFlight ==
    [][ /\ fut.state \in {"none", "created", "pending"}
        /\ fut.state # "none" =>
               /\ rmt_buffer' = rmt_buffer
               /\ ret'.op \notin {"write", "write_call"}
        /\ fut.state = "pending" =>
               /\ ret'.op \in {"write_done", "write_cancel"}
               /\ fut'.state = "none"
        /\ ret'.op = "write_poll" =>
               (fut'.state = "pending" => fut.state = "created" /\ ret'.submitted)
        /\ cfg.mode = "Blocking" => fut' = NoFuture /\ fut = NoFuture ]_vars

\* C14's case: the transmission of an async write is in flight, and the
\* buffer behind its end marker still holds pulses of an earlier write.
C14_Witness ==
    /\ cfg.mode = "Async"
    /\ fut.state = "pending"
    /\ ret.op = "write_poll"
    /\ ret.submitted
    /\ Len(ret.colors) = 1
    /\ FirstEnd(rmt_buffer) < Len(rmt_buffer)
    /\ rmt_buffer[FirstEnd(rmt_buffer) + 1] # end_marker

\* The slots of buf up to its first end marker are the pulses of `colors`,
\* in the order of the input, then of the wire channels, then of the bits
\* from the most significant one down.
TransmitsExactly(buf, colors) ==
    LET n == Len(colors)
        c == CHANNELS(cfg.C.color)
        b == Bits(cfg.C.ty)
    IN  /\ FirstEnd(buf) = n * c * b + 1
        /\ \A i \in 0..(n - 1), j \in 0..(c - 1), q \in 0..(b - 1) :
               buf[(i * c + j) * b + q + 1] =
                   IF BitSet(get_channel_data(cfg.order, colors[i + 1], j),
                             b - 1 - q)
                   THEN pulses[2] ELSE pulses[1]

\* C15: every submission transmits the input of its own write call alone and
\* in input order.  A blocking write submits within the call, an async write
\* in the first poll of its future, which no other write call can precede;
\* the buffer submitted holds, up to its first end marker, the pulses of
\* that call's colors and of no earlier call, and a write whose encoding
\* succeeded on a driver that owns its channel submits.
C15_TransmitsOwnInputInOrder ==
    [][ /\ (ret'.op \in {"write", "write_poll"} /\ ret'.submitted) =>
               TransmitsExactly(rmt_buffer', ret'.colors)
        /\ ret'.op = "write_poll" =>
               /\ ret.op = "write_call"
               /\ ret'.colors = ret.colors
               /\ rmt_buffer' = rmt_buffer
        /\ (ret'.op = "write" /\ ret'.res \in {"Ok", "TransmissionError"}) =>
               ret'.submitted
        /\ (ret'.op = "write_poll" /\ fut.res = "Ok" /\ channel = "Some") =>
               ret'.submitted ]_vars

\* C15's case: a write of one color was submitted from a buffer in which an
\* earlier, longer write left pulses behind the end marker.
C15_Witness ==
    /\ ret.op \in {"write", "write_poll"}
    /\ ret.submitted
    /\ Len(ret.colors) = 1
    /\ FirstEnd(rmt_buffer) < Len(rmt_buffer)
    /\ rmt_buffer[FirstEnd(rmt_buffer) + 1] # end_marker
    /\ ret.res \in {"Ok", "Pending"}

\* C16: the call of the async write encodes the whole input into the buffer
\* and returns the future without having submitted; only the first poll
\* submits and only it can leave the future pending; no step changes the
\* buffer while the future is alive; a future whose call recorded
\* BufferSizeExceeded resolves to it in its first poll without submitting.
C16_AsyncEncodesAtCall ==
    [][ /\ ret'.op = "write_call" =>
               /\ fut'.state = "created"
               /\ fut'.res \in {"Ok", "BufferSizeExceeded"}
               /\ fut'.res = "Ok" => TransmitsExactly(rmt_buffer', ret'.colors)
               /\ ~ret'.submitted
               /\ channel' = channel
        /\ fut.state \in {"created", "pending"} => rmt_buffer' = rmt_buffer
        /\ ret'.res = "Pending" =>
               /\ ret'.op = "write_poll"
               /\ ret'.submitted
               /\ fut.res = "Ok"
        /\ (ret'.op = "write_poll" /\ fut.res = "BufferSizeExceeded") =>
               /\ ret'.res = "BufferSizeExceeded"
               /\ ~ret'.submitted
               /\ fut'.state = "none" ]_vars

\* C16's case: the future of a write of two colors into a buffer sized for
\* one LED was polled and resolved to BufferSizeExceeded.
C16_Witness ==
    /\ cfg.mode = "Async"
    /\ ret.op = "write_poll"
    /\ ret.res = "BufferSizeExceeded"
    /\ Len(ret.colors) = 2
    /\ cfg.BUFFER_SIZE = buffer_size(cfg.C, 1)
    /\ fut.state = "none"

\* The slots of buf that hold the end marker.
EndMarkers(buf) == { s \in 1..Len(buf) : buf[s] = end_marker }

C18_AsyncChannelNeverMissing ==
    cfg.mode = "Async" =>
        /\ channel = "Some"
        /\ ret.res # "Panic"
        /\ (fut.state = "none"
              /\ ret.op \in {"write_cancel", "write_poll", "write_done"}) =>
               Recoverable(channel, rmt_buffer)

\* C18's case: the future of an async write was dropped while its
\* transmission was in flight.
C18_Witness ==
    /\ cfg.mode = "Async"
    /\ ret.op = "write_cancel"
    /\ ret.submitted
    /\ Len(ret.colors) >= 1
    /\ fut.state = "none"
    /\ channel = "Some"

\* floor(ns * clock_MHz / 1000), with clock_MHz = floor(apb_clock_hz / 10^6).
TicksOf(ns, apb_clock_hz) == (ns * (apb_clock_hz \div 1000000)) \div 1000

\* C19: in every state of a driver, after construction and after every
\* write, failed or not, `pulses` holds the zero pulse, high for the ticks
\* of TIME_0_HIGH and then low for those of TIME_0_LOW, and the one pulse,
\* high for the ticks of TIME_1_HIGH and then low for those of TIME_1_LOW,
\* each duration converted as floor(ns * clock_MHz / 1000).
C19_PulsesFromTiming ==
    LET T == TimingOf(cfg.timing)
        hz == cfg.apb_clock_hz
    IN  pulses =
            << [level1 |-> "High", length1 |-> TicksOf(T.TIME_0_HIGH, hz),
                level2 |-> "Low", length2 |-> TicksOf(T.TIME_0_LOW, hz)],
               [level1 |-> "High", length1 |-> TicksOf(T.TIME_1_HIGH, hz),
                level2 |-> "Low", length2 |-> TicksOf(T.TIME_1_LOW, hz)] >>

\* C19's case: a driver with the WS2812B timing under a 32 MHz clock, where
\* every duration is cut to whole ticks (12, 25, 27 and 14), after a write
\* that failed with BufferSizeExceeded.
C19_Witness ==
    /\ cfg.timing = "Ws2812bTiming"
    /\ cfg.apb_clock_hz = 32000000
    /\ ret.op = "write"
    /\ ret.res = "BufferSizeExceeded"
    /\ pulses[1].length1 = 12 /\ pulses[1].length2 = 25
    /\ pulses[2].length1 = 27 /\ pulses[2].length2 = 14

\* The index of (x, y) on the panel of the driver.
IndexOf(x, y) == coordinate_to_index(x, y, panel.W, panel.SNAKING)

\* C20: on every panel, coordinate_to_index maps the coordinates of
\* [0, W) x [0, H) one-to-one onto the indices 0 .. W*H - 1, and W - x - 1
\* is never negative there; every pixel draw_iter accepts has an index below
\* LED_COUNT = W*H, its slots and the end marker behind them lie inside a
\* buffer of buffer_size_2d(W, H) slots, and writing it does not fail with
\* BufferSizeExceeded.
C20_CoordinateBijection ==
    LET W == panel.W
        H == panel.H
        cb == CHANNELS(cfg.C.color) * Bits(cfg.C.ty)
    IN  /\ \A x \in 0..(W - 1) : W - x - 1 >= 0
        /\ \A x \in 0..(W - 1), y \in 0..(H - 1) :
               IndexOf(x, y) \in 0..(W * H - 1)
        /\ \A x1 \in 0..(W - 1), y1 \in 0..(H - 1),
              x2 \in 0..(W - 1), y2 \in 0..(H - 1) :
               IndexOf(x1, y1) = IndexOf(x2, y2) => (x1 = x2 /\ y1 = y2)
        /\ { IndexOf(x, y) : x \in 0..(W - 1), y \in 0..(H - 1) }
               = 0..(W * H - 1)
        /\ (ret.op = "draw_pixel" /\ ret.res # "Skipped") =>
               /\ ret.index = IndexOf(ret.x, ret.y)
               /\ ret.index < W * H
               /\ (ret.index + 1) * cb + 1 <= buffer_size_2d(cfg.C, W, H)
               /\ cfg.BUFFER_SIZE = buffer_size_2d(cfg.C, W, H)
               /\ ret.res = "Written"

\* C20's case: on a snaking panel of 4 x 2 the pixel (0, 0), which is
\* mirrored to W - 0 - 1 = 3, was written after another pixel.
C20_Witness ==
    /\ panel.W = 4 /\ panel.H = 2 /\ panel.SNAKING
    /\ ret.op = "draw_pixel"
    /\ ret.res = "Written"
    /\ ret.x = 0 /\ ret.y = 0
    /\ ret.index = 3
    /\ npix = 2
    /\ Cardinality({ s \in 1..Len(rmt_buffer) : rmt_buffer[s] # end_marker })
           = 2 * CHANNELS(cfg.C.color) * Bits(cfg.C.ty)

=============================================================================
